---------------------------- MODULE Spec2Model ----------------------------
(***************************************************************************)
(* examples/calculator_mcp_server.py: a FastMCP server exposing the four   *)
(* tools add, multiply, subtract and divide.                               *)
(*                                                                         *)
(* A tool call is a Python frame that runs the function body statement by  *)
(* statement; the frames of all calls of a session, the tool registry     *)
(* built while the module loads, and the order in which responses leave   *)
(* on the stdio transport are the state.                                   *)
(*                                                                         *)
(* Numbers are Python floats (IEEE-754 binary64).  A float is modelled    *)
(* by its kind (finite, infinity, nan), its sign bit and, when finite, its *)
(* exact value n/d in lowest terms.  All finite values of the model are    *)
(* small dyadic rationals, for which binary64 arithmetic is exact; tool    *)
(* calls whose quotient is not dyadic (1.0 / 3.0) are outside the inputs   *)
(* the model draws.  Strings are sequences of characters.                  *)
(***************************************************************************)
EXTENDS Integers, Sequences, FiniteSets

(***************************************************************************)
(* Bounds of the model.                                                    *)
(***************************************************************************)
\* Finite operands of Spec are the multiples of 0.5 up to MaxHalf / 2.
MaxHalf == 20
\* Calls of one session under SpecSeq (one after the other).
MaxCalls == 3
\* Calls that may be in flight together under SpecConc.
MaxInFlight == 2

(***************************************************************************)
(* Python floats.                                                          *)
(***************************************************************************)
Fin(s, n, d) == [k |-> "fin", s |-> s, n |-> n, d |-> d]
Inf(s) == [k |-> "inf", s |-> s, n |-> 0, d |-> 1]
NaN == [k |-> "nan", s |-> 0, n |-> 0, d |-> 1]
\* The value of a local that has not been assigned yet.
None == [k |-> "none", s |-> 0, n |-> 0, d |-> 1]
\* The exception float division raises for a zero divisor.
ZeroDivisionError == [k |-> "ZeroDivisionError", s |-> 0, n |-> 0, d |-> 1]

RECURSIVE GCD(_, _)
GCD(m, n) == IF n = 0 THEN m ELSE GCD(n, m % n)

\* The float of sign s and magnitude n/d, in lowest terms.
Norm(s, n, d) ==
    IF n = 0 THEN Fin(s, 0, 1)
    ELSE LET g == GCD(n, d) IN Fin(s, n \div g, d \div g)

Abs(i) == IF i < 0 THEN -i ELSE i
Signed(x) == IF x.s = 1 THEN -x.n ELSE x.n
Xor(s, t) == IF s = t THEN 0 ELSE 1

\* a == 0 on floats: true of 0.0 and of -0.0, false of nan and of infinities.
IsZero(x) == x.k = "fin" /\ x.n = 0

FNeg(x) == IF x.k = "nan" THEN x ELSE [x EXCEPT !.s = 1 - x.s]

\* a + b
FAdd(x, y) ==
    IF x.k = "nan" \/ y.k = "nan" THEN NaN
    ELSE IF x.k = "inf" /\ y.k = "inf" THEN (IF x.s = y.s THEN x ELSE NaN)
    ELSE IF x.k = "inf" THEN x
    ELSE IF y.k = "inf" THEN y
    ELSE LET num == Signed(x) * y.d + Signed(y) * x.d
         IN IF num = 0
            THEN Fin(IF x.s = 1 /\ y.s = 1 THEN 1 ELSE 0, 0, 1)
            ELSE Norm(IF num < 0 THEN 1 ELSE 0, Abs(num), x.d * y.d)

FSubSwapped(x, y) == FAdd(y, FNeg(x))
\* a - b
FSub(x, y) == FAdd(x, FNeg(y))

FMulAsAdd(x, y) == FAdd(x, y)
\* a * b
FMul(x, y) ==
    IF x.k = "nan" \/ y.k = "nan" THEN NaN
    ELSE IF x.k = "inf" \/ y.k = "inf"
         THEN (IF IsZero(x) \/ IsZero(y) THEN NaN ELSE Inf(Xor(x.s, y.s)))
    ELSE Norm(Xor(x.s, y.s), x.n * y.n, x.d * y.d)

\* a / b
FDiv(x, y) ==
    IF IsZero(y) THEN ZeroDivisionError
    ELSE IF x.k = "nan" \/ y.k = "nan" THEN NaN
    ELSE IF x.k = "inf" /\ y.k = "inf" THEN NaN
    ELSE IF x.k = "inf" THEN Inf(Xor(x.s, y.s))
    ELSE IF y.k = "inf" THEN Fin(Xor(x.s, y.s), 0, 1)
    ELSE Norm(Xor(x.s, y.s), x.n * y.d, x.d * y.n)

(***************************************************************************)
(* Strings and the formatting of a float in an f-string.                   *)
(***************************************************************************)
\* The most significant digits repr(float) ever prints.
ReprDigits == 17

DigitChar(i) == <<"0", "1", "2", "3", "4", "5", "6", "7", "8", "9">>[i + 1]

RECURSIVE IntDigits(_)
IntDigits(i) ==
    IF i < 10 THEN <<DigitChar(i)>>
    ELSE IntDigits(i \div 10) \o <<DigitChar(i % 10)>>

\* The decimal digits of r/d (0 <= r < d) after the point.
RECURSIVE FracDigits(_, _, _)
FracDigits(r, d, fuel) ==
    IF r = 0 \/ fuel = 0 THEN <<>>
    ELSE <<DigitChar((r * 10) \div d)>> \o FracDigits((r * 10) % d, d, fuel - 1)

\* format(x, '') of a float, which is repr(x): "2.0", "-0.0", "0.125", "inf",
\* "-inf", "nan".  (The exponent form of magnitudes below 1e-4 or from 1e16 on
\* is not reached by the values of the model.)
Repr(x) ==
    IF x.k = "nan" THEN <<"n", "a", "n">>
    ELSE IF x.k = "inf"
         THEN (IF x.s = 1 THEN <<"-">> ELSE <<>>) \o <<"i", "n", "f">>
    ELSE IF x.k = "fin"
         THEN (IF x.s = 1 THEN <<"-">> ELSE <<>>)
              \o IntDigits(x.n \div x.d) \o <<".">>
              \o (IF x.n % x.d = 0 THEN <<"0">>
                  ELSE FracDigits(x.n % x.d, x.d, ReprDigits))
    ELSE <<"N", "o", "n", "e">>

\* "The result of "
ResultOf == <<"T", "h", "e", " ", "r", "e", "s", "u", "l", "t", " ", "o", "f", " ">>
\* " = "
Equals == <<" ", "=", " ">>
\* "Error: Cannot divide by zero"
DivideByZeroMessage ==
    <<"E", "r", "r", "o", "r", ":", " ", "C", "a", "n", "n", "o", "t", " ",
      "d", "i", "v", "i", "d", "e", " ", "b", "y", " ", "z", "e", "r", "o">>

\* The operator of each tool's f-string with the blanks around it.  The signs
\* of multiply and divide are not ASCII: the file holds the code points
\* U+0E23 U+0097 and U+0E23 U+0E17 (the UTF-8 bytes of the multiplication sign
\* U+00D7 and of the division sign U+00F7, decoded in a Thai code page).  Each
\* code point is one character of the string.
OperatorSignSwapped(name) ==
    CASE name = "add" -> <<" ", "-", " ">>
      [] name = "multiply" -> <<" ", "U+0E23", "U+0E17", " ">>
      [] name = "subtract" -> <<" ", "+", " ">>
      [] name = "divide" -> <<" ", "U+0E23", "U+0097", " ">>
OperatorSign(name) ==
    CASE name = "add" -> <<" ", "+", " ">>
      [] name = "multiply" -> <<" ", "U+0E23", "U+0097", " ">>
      [] name = "subtract" -> <<" ", "-", " ">>
      [] name = "divide" -> <<" ", "U+0E23", "U+0E17", " ">>

(***************************************************************************)
(* The statements of the tool functions.                                   *)
(***************************************************************************)
\* result = a + b | a * b | a - b | a / b
Result(name, a, b) ==
    CASE name = "add" -> FAdd(a, b)
      [] name = "multiply" -> FMul(a, b)
      [] name = "subtract" -> FSub(a, b)
      [] name = "divide" -> FDiv(a, b)

ReturnOperandsSwapped(name, a, b, result) ==
    ResultOf \o Repr(b) \o OperatorSign(name) \o Repr(a) \o Equals \o Repr(result)
\* return f"The result of {a} <sign> {b} = {result}"
Return(name, a, b, result) ==
    ResultOf \o Repr(a) \o OperatorSign(name) \o Repr(b) \o Equals \o Repr(result)

DivideGuardOnDividend(a, b) == IsZero(a)
\* if b == 0:
DivideGuard(a, b) == IsZero(b)

\* The four tools, each run from call to return.
add(a, b) == Return("add", a, b, Result("add", a, b))
multiply(a, b) == Return("multiply", a, b, Result("multiply", a, b))
subtract(a, b) == Return("subtract", a, b, Result("subtract", a, b))
divide(a, b) ==
    IF DivideGuard(a, b) THEN DivideByZeroMessage
    ELSE Return("divide", a, b, Result("divide", a, b))

\* The response of tool `name` to (a, b) when it is the only call.
Tool(name, a, b) ==
    CASE name = "add" -> add(a, b)
      [] name = "multiply" -> multiply(a, b)
      [] name = "subtract" -> subtract(a, b)
      [] name = "divide" -> divide(a, b)

(***************************************************************************)
(* The tool registry.                                                      *)
(***************************************************************************)
\* What @mcp.tool() records of a function def f(a: float, b: float) -> str.
ToolEntry ==
    [params |-> <<[name |-> "a", type |-> "float"], [name |-> "b", type |-> "float"]>>,
     returns |-> "str"]

\* @mcp.tool() applied to the function called name.
Register(reg, name) ==
    [t \in DOMAIN reg \cup {name} |-> IF t = name THEN ToolEntry ELSE reg[t]]

\* mcp = FastMCP("calculator", ...): no tool yet.
NewServer == [t \in {} |-> ToolEntry]

LoadModuleAddMultiplyOnly == Register(Register(NewServer, "add"), "multiply")
\* The registry once the module is loaded: the four decorators in file order.
LoadModule ==
    Register(Register(Register(Register(NewServer, "add"), "multiply"), "subtract"),
             "divide")

(***************************************************************************)
(* State.                                                                  *)
(***************************************************************************)
VARIABLES
    registry,   \* the server's tools: name -> entry
    frames,     \* call id -> the frame of that call
    stdout      \* the ids of the answered calls, in the order of their responses

vars == <<registry, frames, stdout>>

Slots == 1 .. MaxCalls
ConcSlots == 1 .. MaxInFlight

\* The frame of a call that has not been made.
IdleFrame ==
    [pc |-> "idle", name |-> "", a |-> None, b |-> None, result |-> None, ret |-> <<>>]

\* The first statement of a tool's body.
Entry(name) == IF name = "divide" THEN "check" ELSE "compute"

Init ==
    /\ registry = LoadModule
    /\ frames = [c \in Slots |-> IdleFrame]
    /\ stdout = <<>>

(***************************************************************************)
(* Steps of a call.                                                        *)
(***************************************************************************)
\* A tools/call request for tool `name` with arguments a and b arrives as
\* call c: the tool is looked up and a fresh frame starts its body.  Call ids
\* are given in the order of arrival.
CallTool(c, name, a, b) ==
    /\ frames[c].pc = "idle"
    /\ \A d \in Slots : d < c => frames[d].pc # "idle"
    /\ name \in DOMAIN registry
    /\ frames' = [frames EXCEPT ![c] =
                    [pc |-> Entry(name), name |-> name, a |-> a, b |-> b,
                     result |-> None, ret |-> <<>>]]
    /\ UNCHANGED <<registry, stdout>>

CheckUnguarded(c) ==
    /\ frames[c].pc = "check"
    /\ frames' = [frames EXCEPT ![c].pc = "compute"]
    /\ UNCHANGED <<registry, stdout>>
CheckLatched(c) ==
    /\ frames[c].pc = "check"
    /\ frames' = [frames EXCEPT ![c].pc =
                    IF \/ DivideGuard(frames[c].a, frames[c].b)
                       \/ \E d \in Slots : frames[d].ret = DivideByZeroMessage
                    THEN "error" ELSE "compute"]
    /\ UNCHANGED <<registry, stdout>>
\* divide: if b == 0:
Check(c) ==
    /\ frames[c].pc = "check"
    /\ frames' = [frames EXCEPT ![c].pc =
                    IF DivideGuard(frames[c].a, frames[c].b)
                    THEN "error" ELSE "compute"]
    /\ UNCHANGED <<registry, stdout>>

\* divide: return "Error: Cannot divide by zero"
ReturnError(c) ==
    /\ frames[c].pc = "error"
    /\ frames' = [frames EXCEPT ![c].pc = "done", ![c].ret = DivideByZeroMessage]
    /\ stdout' = Append(stdout, c)
    /\ UNCHANGED registry

\* result = a <op> b.  A ZeroDivisionError leaves the function: the call is
\* answered with an error and no return value.
Compute(c) ==
    /\ frames[c].pc = "compute"
    /\ LET r == Result(frames[c].name, frames[c].a, frames[c].b)
       IN IF r = ZeroDivisionError
          THEN /\ frames' = [frames EXCEPT ![c].pc = "raised"]
               /\ stdout' = Append(stdout, c)
          ELSE /\ frames' = [frames EXCEPT ![c].pc = "format", ![c].result = r]
               /\ stdout' = stdout
    /\ UNCHANGED registry

ReadShared(c) ==
    LET others == {d \in Slots : d # c /\ frames[d].pc = "format"}
    IN IF others = {} THEN frames[c].result
       ELSE frames[CHOOSE d \in others : \A e \in others : d <= e].result
\* The value of the local `result` in the frame of call c.
ReadResult(c) == frames[c].result

\* return f"The result of {a} <sign> {b} = {result}"
Format(c) ==
    /\ frames[c].pc = "format"
    /\ frames' = [frames EXCEPT
                    ![c].pc = "done",
                    ![c].ret = Return(frames[c].name, frames[c].a, frames[c].b,
                                      ReadResult(c))]
    /\ stdout' = Append(stdout, c)
    /\ UNCHANGED registry

(***************************************************************************)
(* Inputs.                                                                 *)
(***************************************************************************)
\* The operands of Spec: 0.0, 0.5, 1.0, ... MaxHalf / 2 of either sign (with
\* -0.0), the two infinities and nan.
Operands ==
    {Norm(s, h, 2) : s \in {0, 1}, h \in 0 .. MaxHalf} \cup {Inf(0), Inf(1), NaN}

\* The operands of SpecSeq and SpecConc.
SmallOperands == {Fin(0, 0, 1), Fin(0, 2, 1)}

IsPowerOfTwo(d) == \E e \in 0 .. 12 : d = 2 ^ e

\* a / b is computed exactly: the quotient of two finite floats is dyadic.
ExactQuotient(a, b) ==
    (a.k = "fin" /\ b.k = "fin" /\ b.n # 0) => IsPowerOfTwo(Norm(0, a.n * b.d, a.d * b.n).d)

\* The requests the model sends.
Request(name, a, b) == name = "divide" => ExactQuotient(a, b)

(***************************************************************************)
(* Specifications.                                                         *)
(***************************************************************************)
\* A request for any registered tool with operands of ops arrives as call c.
Call(c, ops) ==
    /\ frames[c].pc = "idle"
    /\ \E name \in DOMAIN registry, a \in ops, b \in ops :
          Request(name, a, b) /\ CallTool(c, name, a, b)

\* No call is in flight.
Quiet == \A d \in Slots : frames[d].pc \in {"idle", "done", "raised"}

\* One call, over all operands.
Next ==
    \/ Call(1, Operands)
    \/ Check(1)
    \/ ReturnError(1)
    \/ Compute(1)
    \/ Format(1)

Spec == Init /\ [][Next]_vars

\* A session of MaxCalls calls, each made when the one before is answered.
NextSeq ==
    \/ \E c \in Slots : Quiet /\ Call(c, SmallOperands)
    \/ \E c \in Slots : Check(c)
    \/ \E c \in Slots : ReturnError(c)
    \/ \E c \in Slots : Compute(c)
    \/ \E c \in Slots : Format(c)

SpecSeq == Init /\ [][NextSeq]_vars

\* MaxInFlight calls whose statements interleave.
NextConc ==
    \/ \E c \in ConcSlots : Call(c, SmallOperands)
    \/ \E c \in ConcSlots : Check(c)
    \/ \E c \in ConcSlots : ReturnError(c)
    \/ \E c \in ConcSlots : Compute(c)
    \/ \E c \in ConcSlots : Format(c)

SpecConc == Init /\ [][NextConc]_vars

(***************************************************************************)
(* What the claims are stated with: the texts as the specification writes  *)
(* them, and arithmetic on the exact values of finite floats.              *)
(***************************************************************************)
IsPrefix(p, t) == Len(p) <= Len(t) /\ SubSeq(t, 1, Len(p)) = p
Contains(t, sub) ==
    \E i \in 1 .. (Len(t) - Len(sub) + 1) : SubSeq(t, i, i + Len(sub) - 1) = sub

TextResultOf == <<"T", "h", "e", " ", "r", "e", "s", "u", "l", "t", " ", "o", "f", " ">>
TextEquals == <<" ", "=", " ">>
TextError == <<"E", "r", "r", "o", "r", ":", " ", "C", "a", "n", "n", "o", "t", " ", "d", "i", "v", "i", "d", "e", " ", "b", "y", " ", "z", "e", "r", "o">>

\* "The result of {a} <sign> {b} = {r}", sign without its blanks.
Template(a, sign, b, r) ==
    TextResultOf \o Repr(a) \o <<" ">> \o sign \o <<" ">> \o Repr(b) \o TextEquals \o Repr(r)

BothFinite(a, b) == a.k = "fin" /\ b.k = "fin"

\* r is the float a + b: of value a + b when both are finite.
IsSum(r, a, b) ==
    IF BothFinite(a, b)
    THEN r.k = "fin" /\ Signed(r) * a.d * b.d = r.d * (Signed(a) * b.d + Signed(b) * a.d)
    ELSE r = FAdd(a, b)

\* r is the float a - b.
IsDifference(r, a, b) ==
    IF BothFinite(a, b)
    THEN r.k = "fin" /\ Signed(r) * a.d * b.d = r.d * (Signed(a) * b.d - Signed(b) * a.d)
    ELSE r = FSub(a, b)

\* r is the float a * b.
IsProduct(r, a, b) ==
    IF BothFinite(a, b)
    THEN r.k = "fin" /\ Signed(r) * a.d * b.d = r.d * Signed(a) * Signed(b)
    ELSE r = FMul(a, b)

\* r is the float a / b, b not zero.
IsQuotient(r, a, b) ==
    IF BothFinite(a, b)
    THEN r.k = "fin" /\ Signed(r) * Signed(b) * a.d = Signed(a) * r.d * b.d
    ELSE r = FDiv(a, b)

Returned(c, name) == frames[c].pc = "done" /\ frames[c].name = name

\* C1: divide(a, b) with b equal to zero (0.0 or -0.0), for every dividend a,
\* returns exactly "Error: Cannot divide by zero" as a normal return value: the
\* division statement is never reached, `result` is never assigned and no
\* exception leaves the function.
C1_DivideByZeroReturnsMessage ==
    \A c \in Slots :
       (frames[c].name = "divide" /\ IsZero(frames[c].b)) =>
          /\ frames[c].pc \in {"check", "error", "done"}
          /\ frames[c].result = None
          /\ frames[c].pc = "done" => frames[c].ret = TextError

C1_Witness ==
    \E c \in Slots :
       /\ Returned(c, "divide")
       /\ frames[c].a = Fin(0, 0, 1)
       /\ frames[c].b = Fin(0, 0, 1)
       /\ frames[c].ret = TextError

\* C2 as claimed: divide(a, b) with b != 0 returns
\* "The result of {a} / {b} = {a/b}", the operator written as "/".
C2_DivideFormatSlash ==
    \A c \in Slots :
       (Returned(c, "divide") /\ ~IsZero(frames[c].b)) =>
          /\ frames[c].ret =
                Template(frames[c].a, <<"/">>, frames[c].b, frames[c].result)
          /\ IsQuotient(frames[c].result, frames[c].a, frames[c].b)

\* C2 amended: divide(a, b) with b != 0 returns "The result of {a} <sign> {b} =
\* {a/b}": the operands in call order, the quotient a/b, and as operator the
\* non-ASCII sign of the source's string literal (code points U+0E23 U+0E17),
\* not the character "/".
C2_DivideFormat ==
    \A c \in Slots :
       (Returned(c, "divide") /\ ~IsZero(frames[c].b)) =>
          /\ frames[c].ret =
                Template(frames[c].a, <<"U+0E23", "U+0E17">>, frames[c].b, frames[c].result)
          /\ IsQuotient(frames[c].result, frames[c].a, frames[c].b)

\* divide(10, 2): "The result of 10.0 <sign> 2.0 = 5.0".
C2_Witness ==
    \E c \in Slots :
       /\ Returned(c, "divide")
       /\ frames[c].a = Fin(0, 10, 1)
       /\ frames[c].b = Fin(0, 2, 1)
       /\ frames[c].ret = <<"T", "h", "e", " ", "r", "e", "s", "u", "l", "t", " ", "o", "f", " ", "1", "0", ".", "0", " ">> \o <<"U+0E23", "U+0E17">> \o <<" ", "2", ".", "0", " ", "=", " ", "5", ".", "0">>
       /\ Contains(frames[c].ret, <<"5">>)

\* C3 as claimed: multiply(a, b) returns "The result of {a} * {b} = {a*b}",
\* the operator written as "*".
C3_MultiplyFormatStar ==
    \A c \in Slots :
       Returned(c, "multiply") =>
          /\ frames[c].ret =
                Template(frames[c].a, <<"*">>, frames[c].b, frames[c].result)
          /\ IsProduct(frames[c].result, frames[c].a, frames[c].b)

\* C3 amended: multiply(a, b) returns "The result of {a} <sign> {b} = {a*b}":
\* the operands in call order, the product a*b, and as operator the non-ASCII
\* sign of the source's string literal (code points U+0E23 U+0097), not the
\* character "*".
C3_MultiplyFormat ==
    \A c \in Slots :
       Returned(c, "multiply") =>
          /\ frames[c].ret =
                Template(frames[c].a, <<"U+0E23", "U+0097">>, frames[c].b, frames[c].result)
          /\ IsProduct(frames[c].result, frames[c].a, frames[c].b)

\* multiply(3, 7): "The result of 3.0 <sign> 7.0 = 21.0".
C3_Witness ==
    \E c \in Slots :
       /\ Returned(c, "multiply")
       /\ frames[c].a = Fin(0, 3, 1)
       /\ frames[c].b = Fin(0, 7, 1)
       /\ frames[c].ret = <<"T", "h", "e", " ", "r", "e", "s", "u", "l", "t", " ", "o", "f", " ", "3", ".", "0", " ">> \o <<"U+0E23", "U+0097">> \o <<" ", "7", ".", "0", " ", "=", " ", "2", "1", ".", "0">>
       /\ Contains(frames[c].ret, <<"2", "1">>)

\* C4: add(a, b) returns "The result of {a} + {b} = {a+b}": the operands in
\* call order, the operator "+", and the sum a+b.
C4_AddFormat ==
    \A c \in Slots :
       Returned(c, "add") =>
          /\ frames[c].ret =
                Template(frames[c].a, <<"+">>, frames[c].b, frames[c].result)
          /\ IsSum(frames[c].result, frames[c].a, frames[c].b)

\* add(2, 3): "The result of 2.0 + 3.0 = 5.0".
C4_Witness ==
    \E c \in Slots :
       /\ Returned(c, "add")
       /\ frames[c].a = Fin(0, 2, 1)
       /\ frames[c].b = Fin(0, 3, 1)
       /\ frames[c].ret = <<"T", "h", "e", " ", "r", "e", "s", "u", "l", "t", " ", "o", "f", " ", "2", ".", "0", " ", "+", " ", "3", ".", "0", " ", "=", " ", "5", ".", "0">>
       /\ Contains(frames[c].ret, <<"5">>)

\* C5: subtract(a, b) returns "The result of {a} - {b} = {a-b}": the operands
\* in call order, the operator "-", and the difference first minus second.
C5_SubtractFormat ==
    \A c \in Slots :
       Returned(c, "subtract") =>
          /\ frames[c].ret =
                Template(frames[c].a, <<"-">>, frames[c].b, frames[c].result)
          /\ IsDifference(frames[c].result, frames[c].a, frames[c].b)

\* subtract(10, 4): "The result of 10.0 - 4.0 = 6.0".
C5_Witness ==
    \E c \in Slots :
       /\ Returned(c, "subtract")
       /\ frames[c].a = Fin(0, 10, 1)
       /\ frames[c].b = Fin(0, 4, 1)
       /\ frames[c].ret = <<"T", "h", "e", " ", "r", "e", "s", "u", "l", "t", " ", "o", "f", " ", "1", "0", ".", "0", " ", "-", " ", "4", ".", "0", " ", "=", " ", "6", ".", "0">>
       /\ Contains(frames[c].ret, <<"6">>)

SameRequest(c, d) ==
    /\ frames[c].name = frames[d].name
    /\ frames[c].a = frames[d].a
    /\ frames[c].b = frames[d].b

Answered(c) == frames[c].pc \in {"done", "raised"}

\* C6: in a session of calls made one after the other (any mix of the four
\* tools, divisions by zero included), two calls of the same tool with the
\* same operands get the same response, whatever calls came before each.
C6_ResponseIndependentOfHistory ==
    \A c, d \in Slots :
       (Answered(c) /\ Answered(d) /\ SameRequest(c, d)) =>
          /\ frames[c].pc = frames[d].pc
          /\ frames[c].ret = frames[d].ret

\* divide(2, 2) first, and again after a division by zero.
C6_Witness ==
    /\ stdout = <<1, 2, 3>>
    /\ Returned(1, "divide") /\ Returned(2, "divide") /\ Returned(3, "divide")
    /\ frames[1].a = Fin(0, 2, 1) /\ frames[1].b = Fin(0, 2, 1)
    /\ IsZero(frames[2].b) /\ frames[2].ret = TextError
    /\ SameRequest(1, 3)
    /\ frames[3].ret = frames[1].ret
    /\ frames[3].ret # TextError

\* C7: when calls are in flight together, whatever the interleaving of their
\* statements, each call gets the response it gets when it runs alone, and
\* none ends in an exception.
C7_ConcurrentAsAlone ==
    \A c \in Slots :
       /\ frames[c].pc # "raised"
       /\ frames[c].pc = "done" =>
             frames[c].ret = Tool(frames[c].name, frames[c].a, frames[c].b)

\* Call 2 arrived while call 1 was in flight and was answered before it; the
\* two are calls of different tools with different results.
C7_Witness ==
    /\ stdout = <<2, 1>>
    /\ frames[1].pc = "done" /\ frames[2].pc = "done"
    /\ frames[1].name # frames[2].name
    /\ frames[1].result # None /\ frames[2].result # None
    /\ frames[1].result # frames[2].result

\* C8: the registry holds exactly the four tools add, subtract, multiply and
\* divide, each taking exactly the two float parameters a and b, in every
\* state: no call adds, removes or replaces a tool.
C8_RegistryFixed ==
    /\ DOMAIN registry = {"add", "subtract", "multiply", "divide"}
    /\ \A t \in DOMAIN registry :
          registry[t].params =
             <<[name |-> "a", type |-> "float"], [name |-> "b", type |-> "float"]>>

\* Two calls were answered, one of them a division by zero.
C8_Witness ==
    /\ Cardinality(DOMAIN registry) = 4
    /\ \E c, d \in Slots :
          /\ c # d
          /\ frames[c].pc = "done" /\ frames[d].pc = "done"
          /\ frames[d].ret = TextError

\* C9: a call returns "Error: Cannot divide by zero" if and only if it is
\* divide with b == 0; every other call returns a string that begins
\* "The result of ", and no call ends in an exception.
C9_ErrorIffDivideByZero ==
    \A c \in Slots :
       /\ frames[c].pc # "raised"
       /\ frames[c].pc = "done" =>
             /\ frames[c].ret = TextError <=>
                   (frames[c].name = "divide" /\ IsZero(frames[c].b))
             /\ ~(frames[c].name = "divide" /\ IsZero(frames[c].b)) =>
                   IsPrefix(TextResultOf, frames[c].ret)

\* divide(0, 2) returns a result, not the error.
C9_Witness ==
    \E c \in Slots :
       /\ Returned(c, "divide")
       /\ IsZero(frames[c].a)
       /\ frames[c].b = Fin(0, 2, 1)
       /\ frames[c].ret # TextError
       /\ IsPrefix(TextResultOf, frames[c].ret)

=============================================================================
